---------------------------- MODULE Spec2Model ----------------------------
(***************************************************************************)
(* Model of src/main.py: the reconciliation pipeline that parses sidecar   *)
(* files into a SQLite registry, lists the remote mount, and for every     *)
(* pending record either finds a fuzzy match or submits it to Real-Debrid. *)
(*                                                                         *)
(* Python strings are named by TLA+ strings; Chars gives the characters of *)
(* each, so that lower() and fuzz.ratio are computed, not assumed.         *)
(***************************************************************************)
EXTENDS Integers, Sequences, FiniteSets, TLC

\* ----------------------------------------------------------------- bounds
MaxFiles  == 2      \* files met by one os.walk of the metadata directory
MaxCycles == 2      \* runs of process_torrents (process starts)

\* ------------------------------------------------------- program constants
match_threshold == 85        \* MATCH_THRESHOLD default
PENDING   == 0               \* status written by the parser
SATISFIED == 1               \* status written by the loop
HTTP_CREATED == 201          \* the only accepted response status

None == "None"               \* Python None / SQL NULL

Max(a, b) == IF a >= b THEN a ELSE b

\* ------------------------------------------------------------------ strings
\* Names stored by the parser and entries printed by rclone.
TorNames      == {"Ab", "Cd"}
RemoteEntries == {"AB", "abx"}

Chars == [s \in TorNames \cup RemoteEntries |->
            CASE s = "Ab"  -> <<"A", "b">>
              [] s = "Cd"  -> <<"C", "d">>
              [] s = "AB"  -> <<"A", "B">>
              [] s = "abx" -> <<"a", "b", "x">>]

\* str.lower() on one character
LowerChar(c) == CASE c = "A" -> "a"
                  [] c = "B" -> "b"
                  [] c = "C" -> "c"
                  [] OTHER   -> c

\* str.lower()
Lower(cs) == [i \in DOMAIN cs |-> LowerChar(cs[i])]

\* number of matched characters (longest common subsequence)
RECURSIVE Matched(_, _)
Matched(s, t) ==
    IF s = <<>> \/ t = <<>> THEN 0
    ELSE IF Head(s) = Head(t) THEN 1 + Matched(Tail(s), Tail(t))
    ELSE Max(Matched(Tail(s), t), Matched(s, Tail(t)))

\* int(round(x)) for x = num / den, Python 3 rounding (half to even)
RoundDiv(num, den) ==
    LET q == num \div den
        r == num % den
    IN  IF 2 * r < den THEN q
        ELSE IF 2 * r > den THEN q + 1
        ELSE IF q % 2 = 0 THEN q ELSE q + 1

\* fuzz.ratio(s1, s2): 100 * 2M / T, 0 for an empty string
Ratio(s1, s2) ==
    IF Len(s1) = 0 \/ Len(s2) = 0 THEN 0
    ELSE RoundDiv(100 * 2 * Matched(s1, s2), Len(s1) + Len(s2))

\* match_in_parallel: "raise" is the AttributeError of None.lower(), which the
\* list comprehension meets on its first element; futures are read in order.
match_in_parallel(file_list, torrent_name, threshold) ==
    IF Len(file_list) > 0 /\ torrent_name = None THEN "raise"
    ELSE IF \E i \in DOMAIN file_list :
               Ratio(Lower(Chars[torrent_name]), Lower(Chars[file_list[i]])) >= threshold
         THEN "match"
         ELSE "nomatch"

\* ----------------------------------------------------------------- registry
\* The torrents table: a sequence of rows in rowid order.  hash is TEXT
\* PRIMARY KEY of an ordinary rowid table, which SQLite lets be NULL, and
\* `hash = NULL` is true of no row.
HashEq(rowhash, h) == h # None /\ rowhash # None /\ rowhash = h

\* UPDATE torrents SET torname = ?, status = ? (one row)
UpdatedRow(row, torrent) ==
    [row EXCEPT !.torname = torrent.torname, !.status = torrent.status]

\* lines 74-91 without the SELECT of line 76: every call inserts
insert_torrent_unchecked(rows, torrent) == Append(rows, torrent)

\* lines 74-91
insert_or_update_torrent(rows, torrent) ==
    IF ~ \E i \in DOMAIN rows : HashEq(rows[i].hash, torrent.hash)
    THEN Append(rows, torrent)
    ELSE [i \in DOMAIN rows |->
            IF HashEq(rows[i].hash, torrent.hash)
            THEN UpdatedRow(rows[i], torrent)
            ELSE rows[i]]

\* the return value of insert_or_update_torrent: True for a new torrent
is_new_torrent(rows, torrent) ==
    ~ \E i \in DOMAIN rows : HashEq(rows[i].hash, torrent.hash)

update_torrent_status(rows, torrent_hash, status) ==
    [i \in DOMAIN rows |->
        IF HashEq(rows[i].hash, torrent_hash)
        THEN [rows[i] EXCEPT !.status = status]
        ELSE rows[i]]


\* ------------------------------------------------------------ sidecar files
\* hashes as the registry stores them, and SHA-1 hexdigests before .upper()
Hashes == {"H1", "H2"}

\* hashlib.sha1(...).hexdigest().upper()
HexUpper(d) == CASE d = "h1" -> "H1"
                 [] d = "h2" -> "H2"

\* A file of the directory: its extension, whether decoding it gives the
\* fields a record needs ("ok") or not ("bad"), and the fields decoding finds (hash: the JSON hash field, or the digest of the
\* re-encoded info dictionary; name: the filename field, or info.name).
SidecarFile(ext, content, hash, name) ==
    [ext |-> ext, content |-> content, hash |-> hash, name |-> name]

FileKinds ==
    { SidecarFile("zurginfo", "ok", "H1", "Ab"),
      SidecarFile("zurginfo", "ok", "H1", "Cd"),
      SidecarFile("zurginfo", "ok", None, "Ab"),      \* no hash field
      SidecarFile("zurginfo", "ok", "H2", None),      \* no filename field
      SidecarFile("zurginfo", "bad", None, None),     \* json.load raises
      SidecarFile("zurgtorrent", "ok", "h2", "Cd"),
      SidecarFile("zurgtorrent", "bad", None, None),  \* see TorrentFaults
      SidecarFile("txt", "ok", None, None) }

\* why a .zurgtorrent file gives no record: bencodepy.decode raises, the
\* dictionary has no b'info', or info has no b'name'
TorrentFaults == {"malformed", "noinfo", "noname"}

\* every directory content of at most MaxFiles files, in os.walk order
RECURSIVE SeqsUpTo(_, _)
SeqsUpTo(S, n) ==
    IF n = 0 THEN {<<>>}
    ELSE LET shorter == SeqsUpTo(S, n - 1)
         IN  shorter \cup {Append(q, x) : q \in shorter, x \in S}

\* every listing rclone can print: entries of the mount, each at most once
Listings == {<<>>} \cup {<<e>> : e \in RemoteEntries}
                   \cup {q \in {<<e1, e2>> : e1 \in RemoteEntries, e2 \in RemoteEntries} :
                            q[1] # q[2]}

\* the dictionary built at lines 140-144
ZurginfoTorrent(f) == [hash |-> f.hash, torname |-> f.name, status |-> PENDING]

\* the dictionary built at lines 168-172
ZurgtorrentTorrent(f) == [hash |-> HexUpper(f.hash), torname |-> f.name, status |-> PENDING]

\* the file gives a record: the branch of line 136 or 152 reaches its upsert
Parseable(f) == f.ext \in {"zurginfo", "zurgtorrent"} /\ f.content = "ok"

\* the dictionary the walk upserts for a Parseable file
RecordOf(f) == IF f.ext = "zurginfo" THEN ZurginfoTorrent(f) ELSE ZurgtorrentTorrent(f)

\* lines 133-185 for one file, as a function of the table
parse_file(rows, f) ==
    IF Parseable(f) THEN insert_or_update_torrent(rows, RecordOf(f)) ELSE rows

\* lines 130-185 for a whole directory, as a function of the table
RECURSIVE parse_all(_, _)
parse_all(rows, files) ==
    IF files = <<>> THEN rows
    ELSE parse_all(parse_file(rows, Head(files)), Tail(files))

\* the table has a row for the record's hash (Python equality: None == None)
Stored(rows, torrent) == \E i \in DOMAIN rows : rows[i].hash = torrent.hash

\* ------------------------------------------------------------------- state
VARIABLES
    db,          \* the torrents table of the SQLite file (durable)
    dir,         \* the files under ZURGINFOS_DIR, in walk order
    pc,          \* where process_torrents is
    cycle,       \* how many times the process has been started
    fileIdx,     \* position of the os.walk loop
    file_list,   \* list_rclone_files' return value
    torrents,    \* fetch_all_torrents' return value
    idx,         \* position of the loop over torrents
    torrent_id,  \* add_torrent_to_rd's return value for torrents[idx]
    exc,         \* the exception that ended process_torrents, or None
    attempted,   \* history: positions of torrents given to add_torrent_to_rd
    delays,      \* history: time.sleep(api_delay) calls of this cycle
    accepted,    \* history: hashes whose submission the service accepted (201 and an id)
    reaccepted,  \* history: hashes it accepted more than once
    listFailed,  \* history: rclone exited non-zero or could not be started
    parseError,  \* history: the error the parsing phase logged and went on from, or None
    startSat,    \* history: the registry was non-empty and all satisfied at start
    parsing_in_progress,  \* the module's global flag (line 15)
    logger_thread,        \* where the thread running periodic_parse_log is
    callers,     \* UpsertSpec: the calls of insert_or_update_torrent in progress
    pool         \* MatchSpec: the call of match_in_parallel in progress

vars == <<db, dir, pc, cycle, fileIdx, file_list, torrents, idx, torrent_id, exc,
          attempted, delays, accepted, reaccepted, listFailed, startSat, parseError,
          parsing_in_progress, logger_thread, callers, pool>>

locals == <<fileIdx, file_list, torrents, idx, torrent_id>>
history == <<attempted, delays, accepted, reaccepted, listFailed, startSat, parseError>>
threads == <<parsing_in_progress, logger_thread>>
aside == <<callers, pool>>


\* no call of match_in_parallel is being followed
NoPool == [torrent_name |-> None, threshold |-> match_threshold, futures |-> <<>>,
           next |-> 1, result |-> "pending"]

Init ==
    /\ db = <<>>
    /\ dir \in SeqsUpTo(FileKinds, MaxFiles)
    /\ pc = "idle"
    /\ cycle = 0
    /\ fileIdx = 1
    /\ file_list = <<>>
    /\ torrents = <<>>
    /\ idx = 1
    /\ torrent_id = None
    /\ exc = None
    /\ attempted = {}
    /\ delays = 0
    /\ accepted = {}
    /\ reaccepted = {}
    /\ listFailed = FALSE
    /\ startSat = FALSE
    /\ parseError = None
    /\ parsing_in_progress = FALSE
    /\ logger_thread = "none"
    /\ callers = <<>>
    /\ pool = NoPool

\* --------------------------------------------------------------- the cycle
\* __main__ calls process_torrents: initialize_database keeps an existing
\* table, and parse_torrent_files_recursively starts its walk.
StartCycle ==
    /\ pc = "idle"
    /\ cycle < MaxCycles
    /\ cycle' = cycle + 1
    /\ pc' = "parsing"
    /\ fileIdx' = 1
    /\ parseError' = None
    /\ file_list' = <<>>
    /\ torrents' = <<>>
    /\ idx' = 1
    /\ torrent_id' = None
    /\ exc' = None
    /\ attempted' = {}
    /\ delays' = 0
    /\ listFailed' = FALSE
    /\ startSat' = (Len(db) > 0 /\ \A i \in DOMAIN db : db[i].status = SATISFIED)
    /\ parsing_in_progress' = TRUE
    /\ logger_thread' = "test"
    /\ UNCHANGED <<aside, db, dir, accepted, reaccepted>>

\* The same start when ZURGINFOS_DIR cannot be opened (missing, not a
\* directory, no permission): os.walk's onerror is None, so the scandir error
\* is dropped and the walk of line 130 yields nothing; no file is visited and
\* nothing is raised.
StartCycleNoRoot ==
    /\ pc = "idle"
    /\ cycle < MaxCycles
    /\ cycle' = cycle + 1
    /\ pc' = "parsing"
    /\ fileIdx' = Len(dir) + 1
    /\ parseError' = "OSError"
    /\ file_list' = <<>>
    /\ torrents' = <<>>
    /\ idx' = 1
    /\ torrent_id' = None
    /\ exc' = None
    /\ attempted' = {}
    /\ delays' = 0
    /\ listFailed' = FALSE
    /\ startSat' = (Len(db) > 0 /\ \A i \in DOMAIN db : db[i].status = SATISFIED)
    /\ parsing_in_progress' = TRUE
    /\ logger_thread' = "test"
    /\ UNCHANGED <<aside, db, dir, accepted, reaccepted>>

AtFile == pc = "parsing" /\ fileIdx <= Len(dir)

\* lines 136-149: a .zurginfo file whose JSON loads
ParseZurginfo ==
    /\ AtFile
    /\ dir[fileIdx].ext = "zurginfo" /\ dir[fileIdx].content = "ok"
    /\ db' = insert_or_update_torrent(db, ZurginfoTorrent(dir[fileIdx]))
    /\ fileIdx' = fileIdx + 1
    /\ UNCHANGED <<aside, threads, dir, cycle, pc, file_list, torrents, idx, torrent_id, exc, history>>

\* lines 152-177: a .zurgtorrent file with info and info.name
ParseZurgtorrent ==
    /\ AtFile
    /\ dir[fileIdx].ext = "zurgtorrent" /\ dir[fileIdx].content = "ok"
    /\ db' = insert_or_update_torrent(db, ZurgtorrentTorrent(dir[fileIdx]))
    /\ fileIdx' = fileIdx + 1
    /\ UNCHANGED <<aside, threads, dir, cycle, pc, file_list, torrents, idx, torrent_id, exc, history>>

\* lines 178-185 with the error leaving the loop over the files: the walk
\* ends at the first file that gives no record
ParseSkipStopsWalk ==
    /\ AtFile
    /\ ~ Parseable(dir[fileIdx])
    /\ fileIdx' = Len(dir) + 1
    /\ UNCHANGED <<aside, threads, db, dir, cycle, pc, file_list, torrents, idx, torrent_id, exc, history>>

\* lines 178-185: a .zurginfo file that is not JSON (the except of line 184),
\* a .zurgtorrent file with one of the TorrentFaults (lines 178-183): the
\* error is logged; a file of another extension is passed over
ParseSkip ==
    /\ AtFile
    /\ \/ dir[fileIdx].ext \notin {"zurginfo", "zurgtorrent"}
       \/ dir[fileIdx].ext = "zurginfo" /\ dir[fileIdx].content # "ok"
       \/ /\ dir[fileIdx].ext = "zurgtorrent" /\ dir[fileIdx].content # "ok"
          /\ \E fault \in TorrentFaults : TRUE
    /\ fileIdx' = fileIdx + 1
    /\ UNCHANGED <<aside, threads, db, dir, cycle, pc, file_list, torrents, idx, torrent_id, exc, history>>

\* lines 145 and 173 raise sqlite3.Error (the file is locked, the disk is
\* full): the except of line 184 logs it and the walk goes on
UpsertFails ==
    /\ AtFile
    /\ Parseable(dir[fileIdx])
    /\ fileIdx' = fileIdx + 1
    /\ parseError' = "sqlite3.Error"
    /\ UNCHANGED <<aside, threads, db, dir, cycle, pc, file_list, torrents, idx, torrent_id, exc,
                   attempted, delays, accepted, reaccepted, listFailed, startSat>>

\* lines 186-189: the walk is over (or os.walk raised and line 187 logged
\* it); the finally clause clears the flag and calls join
ParseEnd ==
    /\ pc = "parsing" /\ fileIdx > Len(dir)
    /\ parsing_in_progress' = FALSE
    /\ pc' = "joining"
    /\ UNCHANGED <<aside, logger_thread, db, dir, cycle, fileIdx, file_list, torrents, idx, torrent_id, exc, history>>

\* line 190 with join returning at once, whether the thread has ended or not
JoinNoWait ==
    /\ pc = "joining"
    /\ pc' = "listing"
    /\ UNCHANGED <<aside, threads, db, dir, cycle, fileIdx, file_list, torrents, idx, torrent_id, exc, history>>

\* lines 190-196: join returns once the thread has ended; the counts and
\* 'Finished parsing torrents' are logged and the phase returns
Join ==
    /\ pc = "joining"
    /\ logger_thread = "done"
    /\ pc' = "listing"
    /\ UNCHANGED <<aside, threads, db, dir, cycle, fileIdx, file_list, torrents, idx, torrent_id, exc, history>>

\* periodic_parse_log, line 107: the loop test reads the flag
LoggerTest ==
    /\ logger_thread = "test"
    /\ logger_thread' = IF parsing_in_progress THEN "log" ELSE "done"
    /\ UNCHANGED <<aside, parsing_in_progress, db, dir, pc, cycle, locals, exc, history>>

\* line 108: 'Files parsed so far' is logged
LoggerLog ==
    /\ logger_thread = "log"
    /\ logger_thread' = "sleep"
    /\ UNCHANGED <<aside, parsing_in_progress, db, dir, pc, cycle, locals, exc, history>>

\* line 109: time.sleep(30) returns
LoggerWake ==
    /\ logger_thread = "sleep"
    /\ logger_thread' = "test"
    /\ UNCHANGED <<aside, parsing_in_progress, db, dir, pc, cycle, locals, exc, history>>

\* list_rclone_files, rclone exits 0: the whole listing
ListOk ==
    /\ pc = "listing"
    /\ \E full \in Listings : file_list' = full
    /\ pc' = "fetch"
    /\ UNCHANGED <<aside, threads, db, dir, cycle, fileIdx, torrents, idx, torrent_id, exc, history>>

\* list_rclone_files, rclone exits non-zero: the lines read before it failed
ListNonZero ==
    /\ pc = "listing"
    /\ \E full \in Listings : \E n \in 0..Len(full) : file_list' = SubSeq(full, 1, n)
    /\ listFailed' = TRUE
    /\ pc' = "fetch"
    /\ UNCHANGED <<aside, threads, db, dir, cycle, fileIdx, torrents, idx, torrent_id, exc,
                   attempted, delays, accepted, reaccepted, startSat, parseError>>

\* list_rclone_files, Popen raises: the except clause returns the empty list
ListNoStart ==
    /\ pc = "listing"
    /\ file_list' = <<>>
    /\ listFailed' = TRUE
    /\ pc' = "fetch"
    /\ UNCHANGED <<aside, threads, db, dir, cycle, fileIdx, torrents, idx, torrent_id, exc,
                   attempted, delays, accepted, reaccepted, startSat, parseError>>

\* line 272
FetchAll ==
    /\ pc = "fetch"
    /\ torrents' = db
    /\ idx' = 1
    /\ pc' = "loop"
    /\ UNCHANGED <<aside, threads, db, dir, cycle, fileIdx, file_list, torrent_id, exc, history>>

\* ------------------------------------------------------- submission client
\* What requests.post can do: answer with a status code and a JSON body
\* (id: its 'id' entry, None when the body has none), time out, or fail to
\* connect.
Response(status_code, id) == [kind |-> "response", status_code |-> status_code, id |-> id]
Timeout         == [kind |-> "timeout", status_code |-> 0, id |-> None]
ConnectionError == [kind |-> "connection_error", status_code |-> 0, id |-> None]
\* an answer with a status other than 201 (line 251)
Rejected == Response(503, None)

\* The service assigns non-empty ids, and accepts no magnet built from a
\* missing hash ("magnet:?xt=urn:btih:None").
ServiceAnswers(magnet_hash) ==
    {Rejected, Timeout, ConnectionError}
      \cup (IF magnet_hash = None THEN {}
            ELSE {Response(HTTP_CREATED, "rd1"), Response(HTTP_CREATED, None)})

Returns(value) == [raised |-> None, value |-> value]
Raises(e)      == [raised |-> e, value |-> None]

\* add_torrent_to_rd: only requests.Timeout is caught
add_torrent_to_rd(resp) ==
    IF resp.kind = "timeout" THEN Returns(None)
    ELSE IF resp.kind = "connection_error" THEN Raises("ConnectionError")
    ELSE IF resp.status_code = HTTP_CREATED
         THEN IF resp.id = None THEN Raises("KeyError") ELSE Returns(resp.id)
         ELSE Returns(None)

\* the service accepted the submission and returned its id
Accepted(resp) == resp.kind = "response" /\ resp.status_code = HTTP_CREATED /\ resp.id # None

\* lines 285-289 with the record marked whatever the client returned
MarkAlways(rows, torrent_hash, id) == update_torrent_status(rows, torrent_hash, SATISFIED)

\* lines 285-289: `if torrent_id:` marks the record, else it is left alone
MarkIfSubmitted(rows, torrent_hash, id) ==
    IF id # None
    THEN update_torrent_status(rows, torrent_hash, SATISFIED)
    ELSE rows

\* ---------------------------------------------------- the match-or-submit loop
AtRecord == pc = "loop" /\ idx <= Len(torrents)

\* lines 274-275
SkipSatisfied ==
    /\ AtRecord
    /\ torrents[idx].status = SATISFIED
    /\ idx' = idx + 1
    /\ UNCHANGED <<aside, threads, db, dir, cycle, pc, fileIdx, file_list, torrents, torrent_id, exc, history>>

\* lines 277-280
MatchFound ==
    /\ AtRecord
    /\ torrents[idx].status # SATISFIED
    /\ match_in_parallel(file_list, torrents[idx].torname, match_threshold) = "match"
    /\ db' = update_torrent_status(db, torrents[idx].hash, SATISFIED)
    /\ idx' = idx + 1
    /\ UNCHANGED <<aside, threads, dir, cycle, pc, fileIdx, file_list, torrents, torrent_id, exc, history>>

\* line 277, torrent_name.lower() on a NULL torname: the AttributeError leaves
\* process_torrents
MatchRaises ==
    /\ AtRecord
    /\ torrents[idx].status # SATISFIED
    /\ match_in_parallel(file_list, torrents[idx].torname, match_threshold) = "raise"
    /\ exc' = "AttributeError"
    /\ pc' = "aborted"
    /\ UNCHANGED <<aside, threads, db, dir, cycle, fileIdx, file_list, torrents, idx, torrent_id, history>>

\* line 282
NoMatch ==
    /\ AtRecord
    /\ torrents[idx].status # SATISFIED
    /\ match_in_parallel(file_list, torrents[idx].torname, match_threshold) = "nomatch"
    /\ pc' = "submit"
    /\ UNCHANGED <<aside, threads, db, dir, cycle, fileIdx, file_list, torrents, idx, torrent_id, exc, history>>

\* lines 283-289: add_torrent_to_rd returns an id or None
SubmitReturns ==
    /\ pc = "submit"
    /\ \E resp \in ServiceAnswers(torrents[idx].hash) :
         LET r == add_torrent_to_rd(resp) IN
         /\ r.raised = None
         /\ torrent_id' = r.value
         /\ db' = MarkIfSubmitted(db, torrents[idx].hash, r.value)
         /\ accepted' = IF Accepted(resp) THEN accepted \cup {torrents[idx].hash} ELSE accepted
         /\ reaccepted' = IF Accepted(resp) /\ torrents[idx].hash \in accepted
                          THEN reaccepted \cup {torrents[idx].hash}
                          ELSE reaccepted
    /\ attempted' = attempted \cup {idx}
    /\ pc' = "sleep"
    /\ UNCHANGED <<aside, threads, dir, cycle, fileIdx, file_list, torrents, idx, exc, delays,
                   listFailed, startSat, parseError>>

\* line 283: add_torrent_to_rd raises, and nothing in process_torrents catches
SubmitRaises ==
    /\ pc = "submit"
    /\ \E resp \in ServiceAnswers(torrents[idx].hash) :
         LET r == add_torrent_to_rd(resp) IN
         /\ r.raised # None
         /\ exc' = r.raised
    /\ attempted' = attempted \cup {idx}
    /\ pc' = "aborted"
    /\ UNCHANGED <<aside, threads, db, dir, cycle, fileIdx, file_list, torrents, idx, torrent_id,
                   delays, accepted, reaccepted, listFailed, startSat, parseError>>

\* lines 291-292 with the time.sleep call left out
NoSleep ==
    /\ pc = "sleep"
    /\ idx' = idx + 1
    /\ torrent_id' = None
    /\ pc' = "loop"
    /\ UNCHANGED <<aside, threads, db, dir, cycle, fileIdx, file_list, torrents, exc, history>>

\* lines 291-292
Sleep ==
    /\ pc = "sleep"
    /\ delays' = delays + 1
    /\ idx' = idx + 1
    /\ torrent_id' = None
    /\ pc' = "loop"
    /\ UNCHANGED <<aside, threads, db, dir, cycle, fileIdx, file_list, torrents, exc,
                   attempted, accepted, reaccepted, listFailed, startSat, parseError>>

\* line 294
Finish ==
    /\ pc = "loop" /\ idx > Len(torrents)
    /\ pc' = "done"
    /\ UNCHANGED <<aside, threads, db, dir, cycle, fileIdx, file_list, torrents, idx, torrent_id, exc, history>>

\* ------------------------------------------------------------- environment
\* process_torrents has returned or raised and the process ends; the next
\* run is a new process.
Exit ==
    /\ pc \in {"done", "aborted"}
    /\ pc' = "idle"
    /\ fileIdx' = 1
    /\ file_list' = <<>>
    /\ torrents' = <<>>
    /\ idx' = 1
    /\ torrent_id' = None
    /\ exc' = None
    /\ attempted' = {}
    /\ delays' = 0
    /\ listFailed' = FALSE
    /\ startSat' = FALSE
    /\ parseError' = None
    /\ parsing_in_progress' = FALSE
    /\ logger_thread' = "none"
    /\ UNCHANGED <<aside, db, dir, cycle, accepted, reaccepted>>

\* The process is killed; what it held in memory is gone, the table stays.
Interrupt ==
    /\ pc \notin {"idle", "done", "aborted"}
    /\ pc' = "idle"
    /\ fileIdx' = 1
    /\ file_list' = <<>>
    /\ torrents' = <<>>
    /\ idx' = 1
    /\ torrent_id' = None
    /\ attempted' = {}
    /\ delays' = 0
    /\ listFailed' = FALSE
    /\ startSat' = FALSE
    /\ parseError' = None
    /\ parsing_in_progress' = FALSE
    /\ logger_thread' = "none"
    /\ UNCHANGED <<aside, db, dir, cycle, exc, accepted, reaccepted>>

\* Between runs a sidecar file is removed from the directory.
DeleteSidecar ==
    /\ pc = "idle"
    /\ \E i \in DOMAIN dir :
         dir' = SubSeq(dir, 1, i - 1) \o SubSeq(dir, i + 1, Len(dir))
    /\ UNCHANGED <<aside, threads, db, pc, cycle, locals, exc, history>>

Next ==
    \/ StartCycle
    \/ ParseZurginfo
    \/ ParseZurgtorrent
    \/ ParseSkip
    \/ ParseEnd
    \/ Join
    \/ LoggerTest
    \/ LoggerLog
    \/ LoggerWake
    \/ ListOk
    \/ ListNonZero
    \/ ListNoStart
    \/ FetchAll
    \/ SkipSatisfied
    \/ MatchFound
    \/ MatchRaises
    \/ NoMatch
    \/ SubmitReturns
    \/ SubmitRaises
    \/ Sleep
    \/ Finish
    \/ Exit
    \/ Interrupt
    \/ DeleteSidecar

Spec == Init /\ [][Next]_vars

\* periodic_parse_log's thread
LoggerNext == LoggerTest \/ LoggerLog \/ LoggerWake

\* The scheduler lets the logger thread run and its sleep returns.
FairSpec == Spec /\ WF_vars(LoggerNext)

\* The program where the metadata directory may be unreadable and the
\* registry's file may refuse a write.
FaultNext ==
    \/ Next
    \/ StartCycleNoRoot
    \/ UpsertFails

FaultSpec == Init /\ [][FaultNext]_vars

\* ------------------------------------- insert_or_update_torrent, step by step
\* Two callers run insert_or_update_torrent at once, each on its own
\* connection to the registry file (two runs of the program started on the
\* same DB_FILE).  A call is the SELECT of line 76, then the INSERT of lines 79-82
\* or the UPDATE of lines 86-89, each with the commit that follows it.  SQLite
\* runs each statement as a whole and serialises the writes; nothing ties the
\* SELECT to the write that follows it.
Callers == {1, 2}

\* the dictionaries the callers pass
UpsertArgs == {[hash |-> h, torname |-> n, status |-> PENDING] : h \in Hashes, n \in TorNames}

\* the tables the calls start from
UpsertTables == {<<>>, <<[hash |-> "H2", torname |-> "Cd", status |-> SATISFIED]>>}

\* everything of the program but the table and the callers stays as Init has it
rest == <<dir, pc, cycle, locals, exc, history, threads, pool>>

UpsertInit ==
    /\ db \in UpsertTables
    /\ callers \in [Callers -> {[torrent |-> t, at |-> "select", exists |-> FALSE,
                                 unseen |-> u, result |-> None] :
                                    t \in UpsertArgs, u \in BOOLEAN}]
    /\ \A c \in Callers : callers[c].unseen = is_new_torrent(db, callers[c].torrent)
    /\ dir = <<>>
    /\ pc = "idle"
    /\ cycle = 0
    /\ fileIdx = 1
    /\ file_list = <<>>
    /\ torrents = <<>>
    /\ idx = 1
    /\ torrent_id = None
    /\ exc = None
    /\ attempted = {}
    /\ delays = 0
    /\ accepted = {}
    /\ reaccepted = {}
    /\ listFailed = FALSE
    /\ startSat = FALSE
    /\ parseError = None
    /\ parsing_in_progress = FALSE
    /\ logger_thread = "none"
    /\ pool = NoPool

\* lines 76-77: SELECT 1 FROM torrents WHERE hash = ?
UpsertSelect(c) ==
    /\ callers[c].at = "select"
    /\ callers' = [callers EXCEPT ![c].exists = ~ is_new_torrent(db, callers[c].torrent),
                                  ![c].at = "write"]
    /\ UNCHANGED <<db, rest>>

\* lines 78-84: INSERT and commit, return True.  hash is the PRIMARY
\* KEY: when a row with this hash has appeared since the SELECT, the INSERT
\* raises sqlite3.IntegrityError and the call does not return.
UpsertInsert(c) ==
    /\ callers[c].at = "write" /\ ~ callers[c].exists
    /\ IF is_new_torrent(db, callers[c].torrent)
       THEN /\ db' = Append(db, callers[c].torrent)
            /\ callers' = [callers EXCEPT ![c].at = "done", ![c].result = "new"]
       ELSE /\ db' = db
            /\ callers' = [callers EXCEPT ![c].at = "done", ![c].result = "IntegrityError"]
    /\ UNCHANGED rest

\* lines 85-91: UPDATE and commit, return False
UpsertUpdate(c) ==
    /\ callers[c].at = "write" /\ callers[c].exists
    /\ db' = [i \in DOMAIN db |->
                IF HashEq(db[i].hash, callers[c].torrent.hash)
                THEN UpdatedRow(db[i], callers[c].torrent)
                ELSE db[i]]
    /\ callers' = [callers EXCEPT ![c].at = "done", ![c].result = "existing"]
    /\ UNCHANGED rest

UpsertNext ==
    \/ \E c \in Callers : UpsertSelect(c)
    \/ \E c \in Callers : UpsertInsert(c)
    \/ \E c \in Callers : UpsertUpdate(c)

UpsertSpec == UpsertInit /\ [][UpsertNext]_vars

\* ------------------------------------------------ match_in_parallel, step by step
\* ThreadPoolExecutor(max_workers=10)
max_workers == 10

\* MATCH_THRESHOLD values: the shipped one, the ratio of "ab" and "abx", and
\* the ratio of equal names
Thresholds == {80, match_threshold, 100}

\* line 233
MeetsThresholdStrictly(match_ratio, threshold) == match_ratio > threshold

MeetsThreshold(match_ratio, threshold) == match_ratio >= threshold

\* everything of the program but the pool stays as Init has it
still == <<db, dir, pc, cycle, locals, exc, history, threads, callers>>

\* line 230: every entry's fuzz.ratio call is submitted before any result is
\* read.  torrent_name is a string here; None is MatchRaises' case.
MatchInit ==
    /\ file_list \in Listings
    /\ \E name \in TorNames : \E threshold \in Thresholds :
         pool = [torrent_name |-> name, threshold |-> threshold,
                 futures |-> [i \in DOMAIN file_list |-> "queued"],
                 next |-> 1, result |-> "pending"]
    /\ db = <<>>
    /\ dir = <<>>
    /\ pc = "idle"
    /\ cycle = 0
    /\ fileIdx = 1
    /\ torrents = <<>>
    /\ idx = 1
    /\ torrent_id = None
    /\ exc = None
    /\ attempted = {}
    /\ delays = 0
    /\ accepted = {}
    /\ reaccepted = {}
    /\ listFailed = FALSE
    /\ startSat = FALSE
    /\ parseError = None
    /\ parsing_in_progress = FALSE
    /\ logger_thread = "none"
    /\ callers = <<>>

\* a free worker takes the oldest call waiting in the executor's queue
WorkerStart(i) ==
    /\ pool.futures[i] = "queued"
    /\ \A j \in 1..(i - 1) : pool.futures[j] # "queued"
    /\ Cardinality({j \in DOMAIN pool.futures : pool.futures[j] = "running"}) < max_workers
    /\ pool' = [pool EXCEPT !.futures[i] = "running"]
    /\ UNCHANGED <<file_list, still>>

\* a worker's fuzz.ratio call returns and its future is set
WorkerFinish(i) ==
    /\ pool.futures[i] = "running"
    /\ pool' = [pool EXCEPT !.futures[i] = "done"]
    /\ UNCHANGED <<file_list, still>>

\* lines 231-234: future.result() of the next future, in the order of file_list
ReadFuture ==
    /\ pool.result = "pending"
    /\ pool.next <= Len(file_list)
    /\ pool.futures[pool.next] = "done"
    /\ IF MeetsThreshold(Ratio(Lower(Chars[pool.torrent_name]),
                               Lower(Chars[file_list[pool.next]])), pool.threshold)
       THEN pool' = [pool EXCEPT !.result = "True"]
       ELSE pool' = [pool EXCEPT !.next = pool.next + 1]
    /\ UNCHANGED <<file_list, still>>

\* line 235
ReturnFalse ==
    /\ pool.result = "pending"
    /\ pool.next > Len(file_list)
    /\ pool' = [pool EXCEPT !.result = "False"]
    /\ UNCHANGED <<file_list, still>>

MatchNext ==
    \/ \E i \in DOMAIN pool.futures : WorkerStart(i)
    \/ \E i \in DOMAIN pool.futures : WorkerFinish(i)
    \/ ReadFuture
    \/ ReturnFalse

MatchSpec == MatchInit /\ [][MatchNext]_vars

TypeOK ==
    /\ pc \in {"idle", "parsing", "joining", "listing", "fetch", "loop", "submit", "sleep",
               "done", "aborted"}
    /\ cycle \in 0..MaxCycles
    /\ \A i \in DOMAIN db :
         /\ db[i].hash \in Hashes \cup {None}
         /\ db[i].torname \in TorNames \cup {None}
         /\ db[i].status \in {PENDING, SATISFIED}
    /\ \A i \in DOMAIN file_list : file_list[i] \in RemoteEntries
    /\ exc \in {None, "AttributeError", "ConnectionError", "KeyError"}
    /\ reaccepted \subseteq accepted /\ accepted \subseteq Hashes
    /\ listFailed \in BOOLEAN /\ startSat \in BOOLEAN
    /\ parseError \in {None, "OSError", "sqlite3.Error"}
    /\ parsing_in_progress \in BOOLEAN
    /\ logger_thread \in {"none", "test", "log", "sleep", "done"}
    /\ delays \in 0..Len(torrents)

\* ------------------------------------------------------------------ claims
CycleEnded == pc \in {"done", "aborted"}

\* the match result the cycle's snapshot gives torrents[i]
MatchOf(i) == match_in_parallel(file_list, torrents[i].torname, match_threshold)

\* C1: a registry row whose status is satisfied never has status pending in
\* a later state (rows are never removed, so a row keeps its position).
C1_StatusNeverReopens ==
    [][\A i \in DOMAIN db : db[i].status = SATISFIED => db'[i].status = SATISFIED]_vars

\* C2: a cycle that started with a non-empty registry whose records were all
\* satisfied makes no submission call.
C2_SkipOnSatisfied == startSat => attempted = {}

\* C3: over all cycles and restarts, the service accepted (answered with a
\* submission id) at most one submission call per hash.
C3_AtMostOneAccepted == \A h \in Hashes : h \notin reaccepted

\* C4: no two rows of the registry have the same hash.
C4_OneRowPerHash ==
    \A i \in DOMAIN db : \A j \in DOMAIN db : i # j => db[i].hash # db[j].hash

C6_SubmitNeverRaises == ~ (pc = "aborted" /\ exc \in {"ConnectionError", "KeyError"})

\* C7: when the cycle has ended, every record that was pending in its
\* snapshot and matched is satisfied and was not submitted, and every pending
\* record with no match was given a submission attempt.
C7_MatchOrSubmit ==
    CycleEnded =>
      \A i \in DOMAIN torrents :
        torrents[i].status = PENDING =>
          /\ MatchOf(i) = "match" => (db[i].status = SATISFIED /\ i \notin attempted)
          /\ MatchOf(i) = "nomatch" => i \in attempted

\* C8: the registry holds no row with a null hash.
C8_NoNullHashRow == \A i \in DOMAIN db : db[i].hash # None

\* C9: at every point where the loop evaluates a record, calls the client or
\* ends, each submission attempt of the cycle has been followed by one delay
\* and there has been no other delay; right after an attempt its delay is
\* the one still to come.
C9_DelayAfterEveryAttempt ==
    /\ pc \in {"loop", "submit", "done"} => delays = Cardinality(attempted)
    /\ pc = "sleep" => delays + 1 = Cardinality(attempted)

\* C9 witness: a second submission call is about to be made, after a first
\* attempt and its delay.
C9_Witness == pc = "submit" /\ attempted # {} /\ delays = Cardinality(attempted)

\* C10: a cycle whose listing failed (rclone exited non-zero or could not be
\* started) goes on to the loop; when the listing it returned is empty, the
\* cycle ends with a submission attempt made for every record that was
\* pending, and with the registry's rows those it had when the loop began.
C10_EmptyListingSubmitsAll ==
    (CycleEnded /\ listFailed /\ file_list = <<>>) =>
      /\ \A i \in DOMAIN torrents : torrents[i].status = PENDING => i \in attempted
      /\ Len(db) = Len(torrents)
      /\ \A i \in DOMAIN torrents : db[i].hash = torrents[i].hash


\* C11: a file that fails to parse (JSON that does not load, bencoding that
\* does not decode, no info or no info.name) leaves the registry as it was
\* and the walk goes on to the next file (the logger thread's steps leave the
\* walk where it is); when the walk is over, every file of the directory that
\* does parse has its record in the registry.
C11_BadFileSkipped ==
    /\ [][(AtFile /\ ~ Parseable(dir[fileIdx]) /\ pc' # "idle") =>
            (db' = db /\ pc' = "parsing" /\ fileIdx' \in {fileIdx, fileIdx + 1})]_vars
    /\ [][(pc = "parsing" /\ pc' \notin {"parsing", "idle"} /\ parseError = None) =>
            \A k \in DOMAIN dir :
                Parseable(dir[k]) => Stored(db', RecordOf(dir[k]))]_vars

\* the walk is over, and a file that parses came after one that does not
C11_Witness ==
    /\ pc = "listing" /\ cycle = 1 /\ parseError = None
    /\ \E k \in DOMAIN dir : \E j \in DOMAIN dir :
          /\ k < j
          /\ dir[k].ext \in {"zurginfo", "zurgtorrent"} /\ ~ Parseable(dir[k])
          /\ Parseable(dir[j]) /\ Stored(db, RecordOf(dir[j]))

\* C12: when the metadata root directory cannot be opened the cycle aborts at
\* once: the remote listing is not fetched and no record is matched,
\* submitted or changed in that cycle.
C12_UnreadableRootAborts ==
    parseError = "OSError" =>
        /\ pc \in {"parsing", "joining", "listing", "aborted"}
        /\ attempted = {}

\* the rows of the table that hold hash h
RowsOf(rows, h) == {i \in DOMAIN rows : rows[i].hash = h}

\* C13: when the process is interrupted while parsing, every record whose
\* upsert had returned is in the durable registry after the crash; and a
\* parse that runs to its end (the restart's re-parse among them) ends with
\* exactly one row for each hash of the directory's files that parse and
\* carry a hash.
C13_CrashKeepsUpserts ==
    /\ [][(pc = "parsing" /\ pc' = "idle") =>
            \A k \in 1..(fileIdx - 1) :
                Parseable(dir[k]) => Stored(db', RecordOf(dir[k]))]_vars
    /\ [][(pc = "parsing" /\ pc' = "joining") =>
            \A k \in DOMAIN dir :
                (Parseable(dir[k]) /\ RecordOf(dir[k]).hash # None) =>
                    Cardinality(RowsOf(db', RecordOf(dir[k]).hash)) = 1]_vars

\* the restart after a run that was killed between the upserts of two files:
\* the first file's row is there, the second's is not yet
C13_Witness ==
    /\ cycle = 2 /\ pc = "parsing" /\ fileIdx = 1
    /\ Len(dir) = 2 /\ Parseable(dir[1]) /\ Parseable(dir[2])
    /\ RecordOf(dir[1]).hash # None /\ RecordOf(dir[2]).hash # None
    /\ RecordOf(dir[1]).hash # RecordOf(dir[2]).hash
    /\ Len(db) = 1 /\ db[1].hash = RecordOf(dir[1]).hash

\* C14: parsing the same unchanged directory twice in a row, with no loop in
\* between, is idempotent: the second parse starts from the table the first
\* one left and leaves it as it is.
C14_ReparseIdempotent == pc = "listing" => parse_all(db, dir) = db

\* C15: the progress reporter terminates once parsing has ended and is joined
\* before the parsing phase returns: after 'Finished parsing torrents' (the
\* step to pc = "listing") the thread has ended, so it logs no 'Files parsed
\* so far' message from then on, under every interleaving.
C15_LoggerJoined ==
    /\ [](pc \in {"listing", "fetch", "loop", "submit", "sleep", "done", "aborted"}
            => logger_thread = "done")
    /\ [][logger_thread = "done" => logger_thread' \in {"done", "none"}]_vars
    /\ (pc = "joining") ~> (logger_thread \in {"done", "none"})

\* the parser waits in join while the thread, which read the flag before it
\* was cleared, still has its message to log
C15_Witness == pc = "joining" /\ logger_thread = "log" /\ ~ parsing_in_progress

\* C16: the upsert is atomic per call.  When two concurrent callers upsert the
\* same hash, not in the registry before, then under every interleaving of
\* their check and insert steps both calls complete, exactly one reports
\* 'new', the other reports 'existing', and the registry never holds two rows
\* for that hash.
C16_UpsertAtomic ==
    /\ \A c \in DOMAIN callers : \A d \in DOMAIN callers :
         (/\ c # d
          /\ callers[c].torrent.hash = callers[d].torrent.hash
          /\ callers[c].unseen
          /\ callers[c].at = "done" /\ callers[d].at = "done")
         => {callers[c].result, callers[d].result} = {"new", "existing"}
    /\ \A c \in DOMAIN callers :
         Cardinality(RowsOf(db, callers[c].torrent.hash)) <= 1

\* C17: match_in_parallel returns True exactly when some remote entry's
\* case-insensitive ratio with the torrent name is at least the threshold,
\* and False for an empty listing, whatever the order in which the pool's
\* workers run and finish; it is the value the loop's match step uses.
C17_MatchIffSomeRatio ==
    pool.result # "pending" =>
        /\ pool.result = "True" <=>
             \E i \in DOMAIN file_list :
                Ratio(Lower(Chars[pool.torrent_name]), Lower(Chars[file_list[i]]))
                    >= pool.threshold
        /\ file_list = <<>> => pool.result = "False"
        /\ pool.result = "True" <=>
             match_in_parallel(file_list, pool.torrent_name, pool.threshold) = "match"

\* True was returned for the second entry, whose ratio equals the threshold,
\* while the first entry's did not reach it
C17_Witness ==
    /\ pool.result = "True" /\ pool.next = 2
    /\ Ratio(Lower(Chars[pool.torrent_name]), Lower(Chars[file_list[2]])) = pool.threshold

\* C18: a registry access error in any phase, an upsert that fails while a
\* sidecar file is parsed included, is fatal for the cycle: the cycle stops
\* and goes on to no matching or submission.
C18_RegistryErrorFatal ==
    parseError = "sqlite3.Error" =>
        /\ pc \notin {"loop", "submit", "sleep", "done"}
        /\ attempted = {}

\* C19: a pending record whose name is NULL does not abort the loop: with a
\* non-empty listing the cycle evaluates it and goes on to the records after
\* it.
C19_NullNameDoesNotAbort ==
    ~ (/\ pc = "aborted" /\ exc = "AttributeError"
       /\ file_list # <<>> /\ torrents[idx].torname = None)

\* C20: within one cycle a row is evaluated at most once and in order, a row
\* given to the submission client is not given to it again, at most one
\* submission call is made per hash, and one call is outstanding at a time.
C20_OneSubmissionPerHash ==
    /\ \A i \in attempted : i <= idx /\ i <= Len(torrents)
    /\ pc = "submit" => idx \notin attempted
    /\ pc = "sleep" => idx \in attempted
    /\ \A i \in attempted : \A j \in attempted :
         i # j => torrents[i].hash # torrents[j].hash
=============================================================================
